---------------------------- MODULE Spec2Model ----------------------------
(***************************************************************************)
(* A model of src/sync.js: the encrypted-record transformer                *)
(* (JWETransformer), the conflict resolution and failure classification    *)
(* of syncKinto, and the two entry points loadFromKinto and saveToKinto    *)
(* with the module-level debounce timer.                                   *)
(*                                                                         *)
(* JavaScript strings are sequences of tokens; a promise is a position     *)
(* (pc) of the call that awaits it, and the settlement of an external      *)
(* promise (store, credential provider, HTTP) is one action whose outcome  *)
(* is chosen among fulfilment and the rejections the callee can raise.     *)
(* The handlers that run in the same microtask chain as a settlement are   *)
(* part of that action.  runtime.sendMessage and the telemetry calls are   *)
(* fire-and-forget: they are taken to return normally.                     *)
(***************************************************************************)
EXTENDS Integers, Sequences, FiniteSets, TLC

\* Bounds of the model.
MaxCalls == 2       \* saveToKinto / loadFromKinto calls in one behaviour
MaxRestarts == 1    \* recursive syncKinto restarts of one cycle
MaxConflicts == 1   \* conflicts listed by one sync round
MaxKidLen == 2      \* length of a key version tag
MaxMergedLen == 5   \* tokens of a migrated note, against a relentless server

VARIABLES
  timers,          \* the runtime's armed timeouts, by the call that armed them
  syncDebounce,    \* sync.js:1, the handle of the last armed timeout, 0 for null
  ncalls,          \* entry-point calls made so far
  task,            \* per call: its position in the promise chain and its history
  credStore,       \* the credential kept by the provider, <<>> when absent
  clientConflict,  \* client.conflict: "undefined", "true" or "false"
  store,           \* the local notes collection, id -> content
  pendingUpserts,  \* migration upserts issued and not yet written (not awaited)
  abandoned,       \* resolutions submitted whose Promise.all has already rejected
  reconnects,      \* 'reconnect' messages sent
  tx,              \* the transformer / resolver harness: applied operation and result
  remote           \* the server's conduct: "settling" when it stops answering with
                   \* conflicts, 'flushed' or an older key within MaxRestarts
                   \* restarts of a cycle, "relentless" when it may go on for ever

vars == <<timers, syncDebounce, ncalls, task, credStore, clientConflict,
          store, pendingUpserts, abandoned, reconnects, tx, remote>>

-----------------------------------------------------------------------------
(* Strings *)

\* The <p>mergeWarning</p> paragraph appended at sync.js:199.
Banner == <<"<p>mergeWarning</p>">>

Min(a, b) == IF a < b THEN a ELSE b

\* JavaScript's < on two strings: lexicographic order of the code units.
RECURSIVE StrLess(_, _)
StrLess(a, b) ==
  IF b = <<>> THEN FALSE
  ELSE IF a = <<>> THEN TRUE
  ELSE IF Head(a) # Head(b) THEN Head(a) < Head(b)
  ELSE StrLess(Tail(a), Tail(b))

Has(r, f) == f \in DOMAIN r

-----------------------------------------------------------------------------
(* JWETransformer, sync.js:54-110 *)

\* The value of a property that is present and undefined.
Undefined == "undefined"

\* JSON.stringify followed by JSON.parse (sync.js:19, 25): a property whose
\* value is undefined is not serialised.
JsonRoundTrip(record) ==
  [f \in {g \in DOMAIN record : ~(g = "_status" /\ record[g] = Undefined)} |-> record[f]]

\* encrypt, sync.js:17-20: the serialised record sealed under the key material.
Encrypt(key, content) == [k |-> key.k, payload |-> JsonRoundTrip(content)]

\* decrypt, sync.js:22-27: opens only what was sealed under the same material.
CanDecrypt(key, encrypted) == encrypted.k = key.k
Decrypt(key, encrypted) == encrypted.payload

\* The status copied to the envelope as it is.
WireStatusCopied(record) ==
  IF ~Has(record, "_status") THEN Undefined ELSE record._status

\* sync.js:66: record._status && (deleted ? 'updated' : record._status).
WireStatus(record) ==
  IF ~Has(record, "_status") THEN Undefined
  ELSE IF record._status = "deleted" THEN "updated"
  ELSE record._status

\* An envelope that does not carry the key version.
EncodeWithoutKid(key, record) ==
  [content |-> Encrypt(key, record), id |-> record.id, _status |-> WireStatus(record)]

\* encode, sync.js:59-78.
Encode(key, record) ==
  LET encryptedResult ==
        [content |-> Encrypt(key, record), id |-> record.id,
         _status |-> WireStatus(record), kid |-> key.kid]
  IN IF Has(record, "last_modified")
       THEN [f \in DOMAIN encryptedResult \cup {"last_modified"} |->
               IF f = "last_modified" THEN record.last_modified
               ELSE encryptedResult[f]]
       ELSE encryptedResult

\* The comparison of sync.js:90 with its operands exchanged.
KeyIsOlderSwapped(key, record) == Has(record, "kid") /\ StrLess(record.kid, key.kid)

\* this.key.kid < record.kid, sync.js:90: false when the record has no kid.
KeyIsOlder(key, record) == Has(record, "kid") /\ StrLess(key.kid, record.kid)

\* record.kid !== this.key.kid, sync.js:89.
KidDiffers(key, record) == ~Has(record, "kid") \/ record.kid # key.kid

\* sync.js:97-108: the decrypted payload with the envelope's last_modified
\* and the deleted flag of an encrypted deletion.
Decoded(key, record) ==
  LET plain == Decrypt(key, record.content)
      dated == IF Has(record, "last_modified")
                 THEN [f \in DOMAIN plain \cup {"last_modified"} |->
                         IF f = "last_modified" THEN record.last_modified
                         ELSE plain[f]]
                 ELSE plain
  IN IF Has(dated, "_status") /\ dated._status = "deleted"
       THEN [f \in DOMAIN dated \cup {"deleted"} |->
               IF f = "deleted" THEN TRUE ELSE dated[f]]
       ELSE dated

\* decode with the comparison of the key versions made first.
DecodeKidFirst(key, record) ==
  IF KidDiffers(key, record)
    THEN IF KeyIsOlder(key, record)
           THEN [tag |-> "ServerKeyNewer", cipher |-> 0]
           ELSE [tag |-> "ServerKeyOlder", cipher |-> 0]
  ELSE IF ~Has(record, "content")
    THEN IF Has(record, "deleted") /\ record.deleted
           THEN [tag |-> "ok", note |-> record, cipher |-> 0]
           ELSE [tag |-> "NoCiphertext", cipher |-> 0]
  ELSE IF CanDecrypt(key, record.content)
    THEN [tag |-> "ok", note |-> Decoded(key, record), cipher |-> 1]
    ELSE [tag |-> "DecryptFailed", cipher |-> 1]

\* decode, sync.js:80-109.  tag is "ok" or the failure raised; cipher counts
\* the calls of decrypt.
Decode(key, record) ==
  IF ~Has(record, "content")
    THEN IF Has(record, "deleted") /\ record.deleted
           THEN [tag |-> "ok", note |-> record, cipher |-> 0]
           ELSE [tag |-> "NoCiphertext", cipher |-> 0]
  ELSE IF KidDiffers(key, record)
    THEN IF KeyIsOlder(key, record)
           THEN [tag |-> "ServerKeyNewer", cipher |-> 0]
           ELSE [tag |-> "ServerKeyOlder", cipher |-> 0]
  ELSE IF CanDecrypt(key, record.content)
    THEN [tag |-> "ok", note |-> Decoded(key, record), cipher |-> 1]
    ELSE [tag |-> "DecryptFailed", cipher |-> 1]

-----------------------------------------------------------------------------
(* Conflict resolution, sync.js:186-223 *)

\* conflict.remote.content as a string operand of +=, sync.js:198.
ContentOf(record) == IF Has(record, "content") THEN record.content ELSE <<Undefined>>

\* published.find(note => note.wasSingleNote), sync.js:204: the index of the
\* first flagged record, 0 when find returns undefined.
FindWasSingleNote(published) ==
  LET hits == {i \in DOMAIN published :
                 Has(published[i], "wasSingleNote") /\ published[i].wasSingleNote}
  IN IF hits = {} THEN 0 ELSE CHOOSE i \in hits : \A j \in hits : i <= j

\* sync.js:205-206: totalOps += wasSingleNote.content; wasSingleNote.content = totalOps.
MergedSingleNote(conflict, wasSingleNote) ==
  ContentOf(conflict.remote) \o Banner \o wasSingleNote.content

\* The default merge with the local content put first.
MergedDefaultLocalFirst(conflict) ==
  [id |-> conflict.remote.id,
   content |-> conflict.local.content \o Banner \o ContentOf(conflict.remote)]

\* sync.js:213-217: the default merge.
MergedDefault(conflict) ==
  [id |-> conflict.remote.id,
   content |-> ContentOf(conflict.remote) \o Banner \o conflict.local.content]

\* sync.js:190: conflict.remote === null is a conflict record without remote.
RemoteIsNull(conflict) == ~Has(conflict, "remote")

\* One pass of the map callback, sync.js:187-222, on the round's published
\* list.  threw: the callback raised (find returned undefined, sync.js:205);
\* upserts: the records handed to collection.upsert; flag: client.conflict
\* was set; resolution: what is handed to collection.resolve.
ResolveConflict(conflict, published) ==
  IF RemoteIsNull(conflict)
    THEN [threw |-> FALSE, published |-> published, upserts |-> <<>>, flag |-> FALSE,
          resolution |-> [id |-> conflict.local.id, content |-> conflict.local.content]]
  ELSE IF conflict.remote.id = "singleNote"
    THEN LET i == FindWasSingleNote(published)
         IN IF i = 0
              THEN [threw |-> TRUE, published |-> published, upserts |-> <<>>,
                    flag |-> FALSE]
              ELSE LET merged == [published[i] EXCEPT
                                    !.content = MergedSingleNote(conflict, published[i])]
                   IN [threw |-> FALSE,
                       published |-> [published EXCEPT ![i] = merged],
                       upserts |-> <<merged>>, flag |-> TRUE,
                       resolution |-> conflict.local]
  ELSE [threw |-> FALSE, published |-> published, upserts |-> <<>>, flag |-> TRUE,
        resolution |-> MergedDefault(conflict)]

\* syncResult.conflicts.map(...), sync.js:187-223: the callback applied to the
\* conflicts in order; a throw abandons the rest and keeps what was done.
RECURSIVE ResolveAll(_, _)
ResolveAll(conflicts, published) ==
  IF conflicts = <<>>
    THEN [threw |-> FALSE, published |-> published, upserts |-> <<>>,
          flag |-> FALSE, resolutions |-> <<>>]
  ELSE LET one == ResolveConflict(Head(conflicts), published)
       IN IF one.threw
            THEN [threw |-> TRUE, published |-> published, upserts |-> <<>>,
                  flag |-> FALSE, resolutions |-> <<>>]
            ELSE LET rest == ResolveAll(Tail(conflicts), one.published)
                 IN [threw |-> rest.threw, published |-> rest.published,
                     upserts |-> one.upserts \o rest.upserts,
                     flag |-> one.flag \/ rest.flag,
                     resolutions |-> <<one.resolution>> \o rest.resolutions]

-----------------------------------------------------------------------------
(* Failures and their classification, sync.js:229-262 *)

Err(status, class, message) == [status |-> status, class |-> class, message |-> message]

E401 == Err(401, "Error", "Unauthorized")
ENewer == Err(0, "ServerKeyNewerError", "key appears to be newer than our key")
EOlder == Err(0, "ServerKeyOlderError", "key appears to be older than our key")
EFlushed == Err(0, "Error", "Server has been flushed.")
ENoResult == Err(0, "TypeError", "syncResult is undefined")
ERenew == Err(0, "Error", "Failed to renew token")
EOther == Err(0, "Error", "other")

\* A rejection with a value that has no message property, such as the string
\* Credentials.get rejects with (sync.js:117).
ENoMessage == Err(0, "String", Undefined)

\* error.message.includes('flushed'), sync.js:248.
IncludesFlushed(message) == message = "Server has been flushed."

\* error.message.includes('syncResult is undefined'), sync.js:253.
IncludesNoResult(message) == message = "syncResult is undefined"

\* The classification without the test of the HTTP status.
ClassifyWithout401(error) ==
  IF error.class = "ServerKeyNewerError" THEN "reconnect"
  ELSE IF error.class = "ServerKeyOlderError" THEN "flushServer"
  ELSE IF error.message = Undefined THEN "throw"
  ELSE IF IncludesFlushed(error.message) THEN "resetLocal"
  ELSE IF IncludesNoResult(error.message) THEN "ignore"
  ELSE IF error.message = "Failed to renew token" THEN "reconnect"
  ELSE "reconnectAndReject"

\* The classification with an older server key handled as a flushed server.
ClassifyOlderAsFlushed(error) ==
  IF error.status = 401 THEN "reconnect"
  ELSE IF error.class = "ServerKeyNewerError" THEN "reconnect"
  ELSE IF error.class = "ServerKeyOlderError" THEN "resetLocal"
  ELSE IF error.message = Undefined THEN "throw"
  ELSE IF IncludesFlushed(error.message) THEN "resetLocal"
  ELSE IF IncludesNoResult(error.message) THEN "ignore"
  ELSE IF error.message = "Failed to renew token" THEN "reconnect"
  ELSE "reconnectAndReject"

\* The classification with a failed renewal left to the last row.
ClassifyRenewAsOther(error) ==
  IF error.status = 401 THEN "reconnect"
  ELSE IF error.class = "ServerKeyNewerError" THEN "reconnect"
  ELSE IF error.class = "ServerKeyOlderError" THEN "flushServer"
  ELSE IF error.message = Undefined THEN "throw"
  ELSE IF IncludesFlushed(error.message) THEN "resetLocal"
  ELSE IF IncludesNoResult(error.message) THEN "ignore"
  ELSE "reconnectAndReject"

\* The branch of the catch handler taken for an error, sync.js:230-261;
\* "throw" when error.message.includes is called on undefined (sync.js:248)
\* and the handler itself raises.
Classify(error) ==
  IF error.status = 401 THEN "reconnect"
  ELSE IF error.class = "ServerKeyNewerError" THEN "reconnect"
  ELSE IF error.class = "ServerKeyOlderError" THEN "flushServer"
  ELSE IF error.message = Undefined THEN "throw"
  ELSE IF IncludesFlushed(error.message) THEN "resetLocal"
  ELSE IF IncludesNoResult(error.message) THEN "ignore"
  ELSE IF error.message = "Failed to renew token" THEN "reconnect"
  ELSE "reconnectAndReject"

\* A rejection leaving a syncKinto invocation reaches the invocations that
\* enclose it, innermost first.  A frame "then" called it inside its then
\* handler (sync.js:225), so its own catch handler classifies the error again;
\* a frame "catch" called it inside its catch handler (sync.js:247, 251) and
\* lets the rejection pass.  The result counts the reconnectSync calls made on
\* the way and tells how the outermost invocation settles.
RECURSIVE Propagate(_, _)
Propagate(stack, error) ==
  IF stack = <<>> THEN [reconnects |-> 0, outcome |-> "rejected"]
  ELSE IF Head(stack) = "catch" THEN Propagate(Tail(stack), error)
  ELSE IF Classify(error) = "reconnect" THEN [reconnects |-> 1, outcome |-> "resolved"]
  ELSE LET up == Propagate(Tail(stack), error)
       IN [reconnects |-> up.reconnects + 1, outcome |-> up.outcome]

-----------------------------------------------------------------------------
(* Data of the model *)

Calls == 1..MaxCalls

Kids == UNION {[1..n -> 1..2] : n \in 1..MaxKidLen}

\* The key of the stored credential and the credential itself.
ActiveKey == [kid |-> <<1, 2>>, k |-> "ka"]
Cred0 == [access_token |-> "t0", key |-> ActiveKey]

\* fxaRenewCredential, sync.js:165: the credential with a fresh access token.
Renew(credential) == [credential EXCEPT !.access_token = "t1"]

\* The note passed by the c-th call: every call passes a different content.
NoteOf(c) == [id |-> "n", content |-> <<ToString(c)>>]

\* Records the remote collection may hold, as the transformer sees them.
RemoteRecords ==
  {[id |-> "n", kid |-> kid, content |-> [k |-> "ka", payload |-> [id |-> "n", content |-> <<"r">>]]] :
     kid \in {<<1>>, <<2>>, <<1, 2>>}}

\* Conflicts a sync round may list.
CNull == [local |-> [id |-> "abc", content |-> <<"x">>]]
CMerge == [local |-> [id |-> "n", content |-> <<"l">>],
           remote |-> [id |-> "n", content |-> <<"r">>]]
CSingle == [local |-> [id |-> "singleNote", content |-> <<"s">>, _status |-> "deleted"],
            remote |-> [id |-> "singleNote", content |-> <<"r">>]]
Conflicts == {CNull, CMerge, CSingle}

SeqsUpTo(S, n) == UNION {[1..k -> S] : k \in 0..n}

\* The published list of a round: the migrated note, when the local
\* collection holds it, may be among the records just pushed.
PublishedOf(st) ==
  {<<>>} \cup
  (IF "w" \in DOMAIN st
     THEN {<<[id |-> "w", content |-> st["w"], wasSingleNote |-> TRUE]>>}
     ELSE {})

\* collection.upsert / collection.resolve on the local collection.
Put(st, record) ==
  [i \in DOMAIN st \cup {record.id} |-> IF i = record.id THEN record.content ELSE st[i]]

IdleTask ==
  [kind |-> "none", pc |-> "idle", note |-> <<>>, burst |-> 0, stack |-> <<>>, credential |-> <<>>,
   pending |-> <<>>, outcome |-> "none", promise |-> "none",
   upserted |-> <<>>, cycles |-> 0, syncCalls |-> 0, restarts |-> 0,
   merged |-> FALSE, unauthorized |-> FALSE, older |-> <<>>,
   editing |-> 0, saved |-> 0, synced |-> 0, loaded |-> 0,
   conflict |-> "none", notes |-> <<>>, listed |-> "none",
   conflicts |-> 0, submitted |-> 0, errors |-> <<>>, escaped |-> FALSE]

IdleTx == [op |-> "idle"]

Start(conduct) ==
  /\ remote = conduct
  /\ timers = {}
  /\ syncDebounce = 0
  /\ ncalls = 0
  /\ task = [c \in Calls |-> IdleTask]
  /\ credStore \in {<<>>, <<Cred0>>}
  /\ clientConflict = "undefined"
  /\ store = [i \in {"w"} |-> <<"w0">>]
  /\ pendingUpserts = {}
  /\ abandoned = {}
  /\ reconnects = 0
  /\ tx = IdleTx

Init == Start("settling")

\* The same program against a server that never stops causing restarts.
RelentlessInit == Start("relentless")

-----------------------------------------------------------------------------
(* Settlement of a syncKinto call, as seen by loadFromKinto and later *)

\* The caller without a rejection handler: a rejected syncKinto reaches the
\* caller's catch handler and retrieveNote is not called.
OnSyncSettledNoRejectionHandler(t, outcome) ==
  IF outcome = "rejected"
    THEN [t EXCEPT !.pc = "done", !.outcome = outcome, !.stack = <<>>,
                   !.credential = <<>>, !.pending = <<>>, !.notes = <<>>,
                   !.promise = "resolved",
                   !.loaded = IF t.kind = "load" THEN @ + 1 ELSE @,
                   !.synced = IF t.kind = "save" THEN @ + 1 ELSE @]
    ELSE [t EXCEPT !.pc = "list", !.outcome = outcome, !.stack = <<>>,
                   !.credential = <<>>, !.pending = <<>>]

\* sync.js:294 and 336: both handlers of the caller call retrieveNote, whether
\* syncKinto resolved or rejected.
OnSyncSettled(t, outcome) ==
  [t EXCEPT !.pc = "list", !.outcome = outcome, !.stack = <<>>,
            !.credential = <<>>, !.pending = <<>>]

\* reconnectSync, sync.js:265-270, called n times.
ReconnectSync(n) ==
  /\ credStore' = (IF n > 0 THEN <<>> ELSE credStore)
  /\ reconnects' = reconnects + n

\* The catch handler of the innermost invocation of call c, sync.js:229-262,
\* run on an error of its try part; r is the call's record at that point.
\* The record keeps the errors its catch handlers were given.
Raise(c, r, error) ==
  LET branch == Classify(error)
      t == [r EXCEPT !.errors = IF Len(@) > MaxRestarts THEN Append(Tail(@), error)
                                  ELSE Append(@, error)]
  IN CASE branch = "reconnect" ->
            /\ task' = [task EXCEPT ![c] = OnSyncSettled(t, "resolved")]
            /\ ReconnectSync(1)
       [] branch = "flushServer" ->
            /\ task' = [task EXCEPT ![c] = [t EXCEPT !.pc = "delete", !.pending = <<>>]]
            /\ ReconnectSync(0)
       [] branch = "resetLocal" ->
            /\ task' = [task EXCEPT ![c] = [t EXCEPT !.pc = "resetFlushed", !.pending = <<>>]]
            /\ ReconnectSync(0)
       [] branch = "ignore" ->
            /\ task' = [task EXCEPT ![c] = OnSyncSettled(t, "resolved")]
            /\ ReconnectSync(0)
       [] branch = "throw" ->
            LET up == Propagate(t.stack, EOther)
            IN /\ task' = [task EXCEPT ![c] = OnSyncSettled([t EXCEPT !.escaped = TRUE],
                                                            up.outcome)]
               /\ ReconnectSync(up.reconnects)
       [] OTHER ->
            LET up == Propagate(t.stack, error)
            IN /\ task' = [task EXCEPT ![c] = OnSyncSettled(t, up.outcome)]
               /\ ReconnectSync(1 + up.reconnects)

\* A rejection raised inside the catch handler (sync.js:244-252): the
\* invocation rejects with it and only the enclosing invocations classify it.
Escape(c, t, error) ==
  LET up == Propagate(t.stack, error)
  IN /\ task' = [task EXCEPT ![c] = OnSyncSettled([t EXCEPT !.escaped = TRUE], up.outcome)]
     /\ ReconnectSync(up.reconnects)

\* The recovery from a ServerKeyOlder failure is under way: the history
\* t.older ends with the failure or with the deletion.
InOlderRecovery(t) ==
  t.older # <<>> /\ t.older[Len(t.older)] \in {"failed", "deleted"}

Logged(t, events) == [t EXCEPT !.older = IF InOlderRecovery(t) THEN @ \o events ELSE @]

\* syncKinto(client, credentials) called again from a handler of kind frame.
\* restarts and stack record the first MaxRestarts restarts; of the later ones
\* (against a relentless server) the stack keeps only whether one of them was
\* made from a then handler.
Restarted(t, frame) ==
  [t EXCEPT !.pc = "get", !.credential = <<>>, !.pending = <<>>,
            !.restarts = IF @ < MaxRestarts THEN @ + 1 ELSE @,
            !.stack = IF Len(@) < MaxRestarts THEN <<frame>> \o @
                      ELSE IF frame = "then" /\ \A i \in DOMAIN @ : @[i] # "then"
                        THEN <<frame>> \o Tail(@)
                      ELSE @]

-----------------------------------------------------------------------------
(* saveToKinto, sync.js:312-362 *)

\* saveToKinto without the clearTimeout.
ClearTimeoutOmitted(armed, handle) == armed

\* clearTimeout(syncDebounce), sync.js:359.
ClearTimeout(armed, handle) == armed \ {handle}

\* The burst a new call belongs to, named by its first call: the burst of the
\* call whose timeout is still armed (syncDebounce is not null), or a new one.
BurstOf(c) == IF syncDebounce = 0 THEN c ELSE task[syncDebounce].burst

\* sync.js:312-361: 'text-editing' is sent, the armed timeout is cleared and a
\* new one is armed for this call's later.
SaveCall ==
  /\ ncalls < MaxCalls
  /\ LET c == ncalls + 1
     IN /\ ncalls' = c
        /\ task' = [task EXCEPT ![c] = [IdleTask EXCEPT !.kind = "save", !.pc = "timer",
                                          !.note = <<NoteOf(c)>>, !.promise = "pending",
                                          !.editing = 1, !.burst = BurstOf(c)]]
        /\ timers' = ClearTimeout(timers, syncDebounce) \cup {c}
        /\ syncDebounce' = c
  /\ UNCHANGED <<credStore, clientConflict, store, pendingUpserts, abandoned, reconnects, tx, remote>>

\* The timeout of call c expires: later runs, sync.js:324-327, and calls
\* notes.upsert(note).
TimerFire(c) ==
  /\ c \in timers
  /\ timers' = timers \ {c}
  /\ syncDebounce' = 0
  /\ task' = [task EXCEPT ![c] = [@ EXCEPT !.pc = "upsert",
                                           !.upserted = Append(@, task[c].note[1])]]
  /\ UNCHANGED <<ncalls, credStore, clientConflict, store, pendingUpserts, abandoned,
                 reconnects, tx, remote>>

\* The fulfilment handler of the upsert without its 'text-saved' message.
UpsertDoneSilent(c) ==
  /\ task[c].pc = "upsert"
  /\ store' = Put(store, task[c].note[1])
  /\ clientConflict' = "false"
  /\ task' = [task EXCEPT ![c] = [@ EXCEPT !.pc = "get", !.cycles = @ + 1]]
  /\ UNCHANGED <<timers, syncDebounce, ncalls, credStore, pendingUpserts, abandoned,
                 reconnects, tx, remote>>

\* sync.js:328-335: the upsert is written; 'text-saved' is sent,
\* client.conflict is cleared and syncKinto is called.
UpsertDone(c) ==
  /\ task[c].pc = "upsert"
  /\ store' = Put(store, task[c].note[1])
  /\ clientConflict' = "false"
  /\ task' = [task EXCEPT ![c] = [@ EXCEPT !.pc = "get", !.saved = @ + 1,
                                           !.cycles = @ + 1]]
  /\ UNCHANGED <<timers, syncDebounce, ncalls, credStore, pendingUpserts, abandoned,
                 reconnects, tx, remote>>

\* sync.js:336: the upsert rejects; the rejection handler calls retrieveNote.
UpsertFail(c) ==
  /\ task[c].pc = "upsert"
  /\ task' = [task EXCEPT ![c] = [@ EXCEPT !.pc = "list"]]
  /\ UNCHANGED <<timers, syncDebounce, ncalls, credStore, clientConflict, store,
                 pendingUpserts, abandoned, reconnects, tx, remote>>

\* sync.js:337-348: 'text-synced' with the listed notes, then resolve().
LaterThen(t, st, flag) ==
  [t EXCEPT !.pc = "done", !.synced = @ + 1, !.notes = <<st>>, !.conflict = flag,
            !.promise = "resolved"]

\* A catch handler that resolves without sending 'text-synced'.
LaterCatchSilent(t, flag) ==
  [t EXCEPT !.pc = "done", !.promise = "resolved"]

\* A catch handler that sends 'text-synced' and lets the promise reject.
LaterCatchRejects(t, flag) ==
  [t EXCEPT !.pc = "done", !.synced = @ + 1, !.notes = <<>>, !.conflict = flag,
            !.promise = "rejected"]

\* sync.js:349-356: 'text-synced' with no notes, then resolve().
LaterCatch(t, flag) ==
  [t EXCEPT !.pc = "done", !.synced = @ + 1, !.notes = <<>>, !.conflict = flag,
            !.promise = "resolved"]

-----------------------------------------------------------------------------
(* loadFromKinto, sync.js:291-310 *)

\* sync.js:292: syncKinto is called at once.
LoadCall ==
  /\ ncalls < MaxCalls
  /\ LET c == ncalls + 1
     IN /\ ncalls' = c
        /\ task' = [task EXCEPT ![c] = [IdleTask EXCEPT !.kind = "load", !.pc = "get",
                                          !.promise = "pending", !.cycles = 1]]
  /\ UNCHANGED <<timers, syncDebounce, credStore, clientConflict, store, pendingUpserts,
                 abandoned, reconnects, tx, remote>>

\* sync.js:295-301: 'kinto-loaded' with the listed notes.
LoadThen(t, st) ==
  [t EXCEPT !.pc = "done", !.loaded = @ + 1, !.notes = <<st>>, !.promise = "resolved"]

\* sync.js:302-309: 'kinto-loaded' with notes null; the promise resolves.
LoadCatch(t) ==
  [t EXCEPT !.pc = "done", !.loaded = @ + 1, !.notes = <<>>, !.promise = "resolved"]

\* retrieveNote, sync.js:272-274, fulfils: the handler of the caller runs.
ListDone(c) ==
  /\ task[c].pc = "list"
  /\ LET t == [task[c] EXCEPT !.listed = "ok"]
     IN task' = [task EXCEPT ![c] = IF t.kind = "save" THEN LaterThen(t, store, clientConflict)
                                    ELSE LoadThen(t, store)]
  /\ UNCHANGED <<timers, syncDebounce, ncalls, credStore, clientConflict, store,
                 pendingUpserts, abandoned, reconnects, tx, remote>>

\* retrieveNote rejects: the catch handler of the caller runs.
ListFail(c) ==
  /\ task[c].pc = "list"
  /\ LET t == [task[c] EXCEPT !.listed = "failed"]
     IN task' = [task EXCEPT ![c] = IF t.kind = "save" THEN LaterCatch(t, clientConflict)
                                    ELSE LoadCatch(t)]
  /\ UNCHANGED <<timers, syncDebounce, ncalls, credStore, clientConflict, store,
                 pendingUpserts, abandoned, reconnects, tx, remote>>

-----------------------------------------------------------------------------
(* syncKinto, sync.js:156-263 *)

\* sync.js:159-165: credentials.get() fulfils.  Without a stored credential
\* the invocation resolves; otherwise fxaRenewCredential is called.
GetDone(c) ==
  /\ task[c].pc = "get"
  /\ IF credStore = <<>>
       THEN task' = [task EXCEPT ![c] = OnSyncSettled(@, "resolved")]
       ELSE task' = [task EXCEPT ![c] = [@ EXCEPT !.pc = "renew", !.credential = credStore]]
  /\ UNCHANGED <<timers, syncDebounce, ncalls, credStore, clientConflict, store,
                 pendingUpserts, abandoned, reconnects, tx, remote>>

\* credentials.get() rejects.
GetFail(c) ==
  /\ task[c].pc = "get"
  /\ \E error \in {EOther, ENoMessage} : Raise(c, task[c], error)
  /\ UNCHANGED <<timers, syncDebounce, ncalls, clientConflict, store, pendingUpserts,
                 abandoned, tx, remote>>

\* sync.js:166-169: the renewed credential is kept and handed to
\* credentials.set.
RenewDone(c) ==
  /\ task[c].pc = "renew"
  /\ LET renewedCred == Renew(task[c].credential[1])
     IN /\ task' = [task EXCEPT ![c] = [@ EXCEPT !.pc = "set", !.credential = <<renewedCred>>]]
        /\ credStore' = <<renewedCred>>
  /\ UNCHANGED <<timers, syncDebounce, ncalls, clientConflict, store, pendingUpserts,
                 abandoned, reconnects, tx, remote>>

\* fxaRenewCredential rejects.
RenewFail(c) ==
  /\ task[c].pc = "renew"
  /\ \E error \in {ERenew, EOther} : Raise(c, task[c], error)
  /\ UNCHANGED <<timers, syncDebounce, ncalls, clientConflict, store, pendingUpserts,
                 abandoned, tx, remote>>

\* sync.js:170-180: credentials.set fulfils; the collection is bound to the
\* transformer of the credential's key and collection.sync is called.
SetDone(c) ==
  /\ task[c].pc = "set"
  /\ task' = [task EXCEPT ![c] = [@ EXCEPT !.pc = "sync",
                                           !.syncCalls = Min(@ + 1, MaxRestarts + 1)]]
  /\ UNCHANGED <<timers, syncDebounce, ncalls, credStore, clientConflict, store,
                 pendingUpserts, abandoned, reconnects, tx, remote>>

\* credentials.set rejects.
SetFail(c) ==
  /\ task[c].pc = "set"
  /\ Raise(c, task[c], EOther)
  /\ UNCHANGED <<timers, syncDebounce, ncalls, clientConflict, store, pendingUpserts,
                 abandoned, tx, remote>>

\* The server may cause a further restart of the cycle: always when it is
\* relentless, within the bound of the model when it is settling.
MayRestart(c) == remote = "relentless" \/ task[c].restarts < MaxRestarts

\* What a sync round can return: conflicts only while a restart is allowed.
SyncResults(c) ==
  [conflicts : IF MayRestart(c) THEN SeqsUpTo(Conflicts, MaxConflicts) ELSE {<<>>},
   published : PublishedOf(store)]

\* sync.js:183-228: collection.sync fulfils with syncResult.  The conflicts
\* are resolved in one pass; the upserts of the migration are issued, the
\* resolutions submitted, and Promise.all awaits them.  The call's record
\* keeps the number of conflicts of the round and of the submissions made.
SyncDone(c) ==
  /\ task[c].pc = "sync"
  /\ \E syncResult \in SyncResults(c) :
       LET done == ResolveAll(syncResult.conflicts, syncResult.published)
           t == [task[c] EXCEPT !.merged = @ \/ done.flag,
                                !.conflicts = Len(syncResult.conflicts),
                                !.submitted = Len(done.resolutions)]
       IN /\ clientConflict' = (IF done.flag THEN "true" ELSE clientConflict)
          /\ pendingUpserts' = pendingUpserts \cup {done.upserts[i] : i \in DOMAIN done.upserts}
          /\ IF syncResult.conflicts = <<>>
               THEN /\ task' = [task EXCEPT ![c] = OnSyncSettled(t, "resolved")]
                    /\ ReconnectSync(0)
                    /\ UNCHANGED abandoned
             ELSE IF done.threw
               THEN /\ Raise(c, t, EOther)
                    /\ abandoned' = abandoned \cup
                                    {done.resolutions[i] : i \in DOMAIN done.resolutions}
             ELSE /\ task' = [task EXCEPT ![c] = [t EXCEPT !.pc = "resolve",
                                                           !.pending = done.resolutions]]
                  /\ ReconnectSync(0)
                  /\ UNCHANGED abandoned
  /\ UNCHANGED <<timers, syncDebounce, ncalls, store, tx, remote>>

\* Failures collection.sync can reject with: those of the transport and the
\* store, and those decode raises on a remote record under the credential's key.
DecodeError(tag) ==
  IF tag = "ServerKeyNewer" THEN ENewer
  ELSE IF tag = "ServerKeyOlder" THEN EOlder
  ELSE EOther

SyncErrors(c) ==
  {e \in {E401, EFlushed, ENoResult, EOther} \cup
         {DecodeError(Decode(task[c].credential[1].key, r).tag) :
            r \in {q \in RemoteRecords : Decode(task[c].credential[1].key, q).tag # "ok"}} :
     Classify(e) \in {"flushServer", "resetLocal"} => MayRestart(c)}

\* collection.sync rejects: the catch handler classifies the failure.
SyncFail(c) ==
  /\ task[c].pc = "sync"
  /\ \E error \in SyncErrors(c) :
       Raise(c, [task[c] EXCEPT !.unauthorized = @ \/ error.status = 401,
                                !.older = IF error.class = "ServerKeyOlderError"
                                            THEN <<"failed">> ELSE @],
             error)
  /\ UNCHANGED <<timers, syncDebounce, ncalls, clientConflict, store, pendingUpserts,
                 abandoned, tx, remote>>

\* One collection.resolve fulfils and writes its resolution; after the last
\* one the then handler of sync.js:224-226 calls syncKinto again.
ResolveDone(c) ==
  /\ task[c].pc = "resolve"
  /\ \E i \in DOMAIN task[c].pending :
       LET left == SubSeq(task[c].pending, 1, i - 1) \o
                   SubSeq(task[c].pending, i + 1, Len(task[c].pending))
       IN /\ store' = Put(store, task[c].pending[i])
          /\ task' = [task EXCEPT ![c] = IF left = <<>> THEN Restarted(@, "then")
                                         ELSE [@ EXCEPT !.pending = left]]
  /\ UNCHANGED <<timers, syncDebounce, ncalls, credStore, clientConflict, pendingUpserts,
                 abandoned, reconnects, tx, remote>>

\* One collection.resolve rejects: Promise.all rejects at once and the catch
\* handler runs; the other submissions stay in flight.
ResolveFail(c) ==
  /\ task[c].pc = "resolve"
  /\ \E i \in DOMAIN task[c].pending, error \in {E401, EOther} :
       /\ Raise(c, [task[c] EXCEPT !.unauthorized = @ \/ error.status = 401], error)
       /\ abandoned' = abandoned \cup
                       {task[c].pending[j] : j \in DOMAIN task[c].pending \ {i}}
  /\ UNCHANGED <<timers, syncDebounce, ncalls, clientConflict, store, pendingUpserts, tx, remote>>

\* sync.js:244-246: deleteCollection fulfils; resetSyncStatus is called.
DeleteDone(c) ==
  /\ task[c].pc = "delete"
  /\ task' = [task EXCEPT ![c] = [Logged(@, <<"deleted">>) EXCEPT !.pc = "resetOlder"]]
  /\ UNCHANGED <<timers, syncDebounce, ncalls, credStore, clientConflict, store,
                 pendingUpserts, abandoned, reconnects, tx, remote>>

\* deleteCollection rejects inside the catch handler.
DeleteFail(c) ==
  /\ task[c].pc = "delete"
  /\ \E error \in {E401, EOther} : Escape(c, Logged(task[c], <<"deleteFailed">>), error)
  /\ UNCHANGED <<timers, syncDebounce, ncalls, clientConflict, store, pendingUpserts,
                 abandoned, tx, remote>>

\* sync.js:246-247 and 249-252: resetSyncStatus fulfils; syncKinto is called
\* again from the catch handler.
ResetDone(c) ==
  /\ task[c].pc \in {"resetOlder", "resetFlushed"}
  /\ task' = [task EXCEPT ![c] = Restarted(Logged(@, <<"reset", "restarted">>), "catch")]
  /\ UNCHANGED <<timers, syncDebounce, ncalls, credStore, clientConflict, store,
                 pendingUpserts, abandoned, reconnects, tx, remote>>

\* resetSyncStatus rejects inside the catch handler.
ResetFail(c) ==
  /\ task[c].pc \in {"resetOlder", "resetFlushed"}
  /\ Escape(c, Logged(task[c], <<"resetFailed">>), EOther)
  /\ UNCHANGED <<timers, syncDebounce, ncalls, clientConflict, store, pendingUpserts,
                 abandoned, tx, remote>>

\* A write nobody awaits reaches the local collection: the upsert of the
\* migration (sync.js:207) or a resolution whose Promise.all has rejected.
BackgroundWrite ==
  /\ \/ \E w \in pendingUpserts :
          /\ store' = Put(store, w)
          /\ pendingUpserts' = pendingUpserts \ {w}
          /\ UNCHANGED abandoned
     \/ \E w \in abandoned :
          /\ store' = Put(store, w)
          /\ abandoned' = abandoned \ {w}
          /\ UNCHANGED pendingUpserts
  /\ UNCHANGED <<timers, syncDebounce, ncalls, task, credStore, clientConflict,
                 reconnects, tx, remote>>

Next ==
  \/ SaveCall
  \/ LoadCall
  \/ BackgroundWrite
  \/ \E c \in Calls :
       \/ TimerFire(c)
       \/ UpsertDone(c)
       \/ UpsertFail(c)
       \/ GetDone(c)
       \/ GetFail(c)
       \/ RenewDone(c)
       \/ RenewFail(c)
       \/ SetDone(c)
       \/ SetFail(c)
       \/ SyncDone(c)
       \/ SyncFail(c)
       \/ ResolveDone(c)
       \/ ResolveFail(c)
       \/ DeleteDone(c)
       \/ DeleteFail(c)
       \/ ResetDone(c)
       \/ ResetFail(c)
       \/ ListDone(c)
       \/ ListFail(c)

Spec == Init /\ [][Next]_vars

\* Every pending timeout expires and every pending promise of an external
\* service settles: the steps of a call that has been made are taken in time.
Step(c) ==
  \/ TimerFire(c) \/ UpsertDone(c) \/ UpsertFail(c) \/ GetDone(c) \/ GetFail(c)
  \/ RenewDone(c) \/ RenewFail(c) \/ SetDone(c) \/ SetFail(c) \/ SyncDone(c)
  \/ SyncFail(c) \/ ResolveDone(c) \/ ResolveFail(c) \/ DeleteDone(c)
  \/ DeleteFail(c) \/ ResetDone(c) \/ ResetFail(c) \/ ListDone(c) \/ ListFail(c)

FairSpec == Spec /\ \A c \in Calls : WF_vars(Step(c))

\* One call against a relentless server, its steps taken in time.  The
\* migration makes the merged note longer each time it is repeated: rounds
\* that would make it longer than MaxMergedLen are left out.
RelentlessNext ==
  \/ ncalls = 0 /\ SaveCall
  \/ ncalls = 0 /\ LoadCall
  \/ BackgroundWrite
  \/ \E c \in Calls :
       /\ Step(c)
       /\ \A w \in pendingUpserts' : Len(w.content) <= MaxMergedLen

RelentlessSpec ==
  RelentlessInit /\ [][RelentlessNext]_vars /\ \A c \in Calls : WF_vars(Step(c))

-----------------------------------------------------------------------------
(* The transformer and the resolver applied to enumerated inputs *)

Restrict(r, D) == [f \in D |-> r[f]]

Keys == [kid : Kids, k : {"ka", "kb"}]

PlainNotes ==
  {Restrict(full, D) :
     full \in [id : {"n"}, content : {<<"x">>}, last_modified : {7},
               _status : {"created", "updated", "deleted", "synced"}],
     D \in {E \in SUBSET {"id", "content", "last_modified", "_status"} :
              {"id", "content"} \subseteq E}}

Ciphertexts ==
  [k : {"ka", "kb"},
   payload : {[id |-> "n", content |-> <<"x">>],
              [id |-> "n", content |-> <<"x">>, _status |-> "deleted"]}]

WireRecords ==
  {Restrict(full, D) :
     full \in [id : {"n"}, content : Ciphertexts, kid : Kids, deleted : BOOLEAN,
               last_modified : {7}],
     D \in {E \in SUBSET {"id", "content", "kid", "deleted", "last_modified"} :
              "id" \in E}}

TxLocals == {[id |-> "abc", content |-> <<"x">>],
             [id |-> "singleNote", content |-> <<"s">>, _status |-> "deleted"]}

TxRemotes == {[id |-> "abc", content |-> <<"r">>],
              [id |-> "singleNote", content |-> <<"r">>],
              [id |-> "abc", deleted |-> TRUE]}

TxConflicts ==
  {[local |-> l] : l \in TxLocals} \cup [local : TxLocals, remote : TxRemotes]

TxPublished ==
  SeqsUpTo({[id |-> "w", content |-> <<"w0">>, wasSingleNote |-> TRUE],
            [id |-> "p", content |-> <<"p0">>]}, 2)

TxInit ==
  /\ Init
  /\ credStore = <<Cred0>>

\* decode applied to a wire record under a key.
TxDecode ==
  /\ tx.op = "idle"
  /\ \E key \in Keys, record \in WireRecords :
       tx' = [op |-> "decode", key |-> key, record |-> record,
              out |-> Decode(key, record)]
  /\ UNCHANGED <<timers, syncDebounce, ncalls, task, credStore, clientConflict, store,
                 pendingUpserts, abandoned, reconnects, remote>>

\* encode applied to a note, and decode applied to its result.
TxEncode ==
  /\ tx.op = "idle"
  /\ \E key \in Keys, note \in PlainNotes :
       tx' = [op |-> "encode", key |-> key, note |-> note, out |-> Encode(key, note),
              back |-> Decode(key, Encode(key, note))]
  /\ UNCHANGED <<timers, syncDebounce, ncalls, task, credStore, clientConflict, store,
                 pendingUpserts, abandoned, reconnects, remote>>

\* The map of sync.js:187 applied to a round that lists a conflict once, and
\* to a round that lists it twice, on the same published list.
TxResolve ==
  /\ tx.op = "idle"
  /\ \E conflict \in TxConflicts, published \in TxPublished :
       tx' = [op |-> "resolve", conflict |-> conflict, published |-> published,
              once |-> ResolveAll(<<conflict>>, published),
              twice |-> ResolveAll(<<conflict, conflict>>, published)]
  /\ UNCHANGED <<timers, syncDebounce, ncalls, task, credStore, clientConflict, store,
                 pendingUpserts, abandoned, reconnects, remote>>

TxNext == TxDecode \/ TxEncode \/ TxResolve

TxSpec == TxInit /\ [][TxNext]_vars

-----------------------------------------------------------------------------
(* Claims on the conflict resolution and on decode, checked under TxSpec *)

\* a strictly precedes b in lexicographic order: they agree on a prefix after
\* which a ends and b goes on, or a holds the smaller unit.
LexBefore(a, b) ==
  \E n \in 0..Min(Len(a), Len(b)) :
    /\ \A i \in 1..n : a[i] = b[i]
    /\ \/ n = Len(a) /\ n < Len(b)
       \/ n < Len(a) /\ n < Len(b) /\ a[n + 1] < b[n + 1]

TxSingleNote ==
  /\ tx.op = "resolve"
  /\ Has(tx.conflict, "remote")
  /\ tx.conflict.remote.id = "singleNote"

\* C8: resolving the sentinel 'singleNote' conflict twice against the same
\* published set leaves the 'wasSingleNote' record, and the record handed to
\* the upsert, with the content that resolving it once gives.
C8_MigrationIdempotent ==
  (TxSingleNote /\ ~tx.once.threw) =>
    /\ tx.twice.published = tx.once.published
    /\ tx.twice.upserts[Len(tx.twice.upserts)] = tx.once.upserts[1]

\* The resolution the claim C9 gives for a conflict.
ExpectedResolution(conflict) ==
  IF ~Has(conflict, "remote")
    THEN [id |-> conflict.local.id, content |-> conflict.local.content]
  ELSE IF conflict.remote.id = "singleNote" THEN conflict.local
  ELSE [id |-> conflict.remote.id,
        content |-> (IF Has(conflict.remote, "content") THEN conflict.remote.content
                     ELSE <<"undefined">>)
                    \o <<"<p>mergeWarning</p>">> \o conflict.local.content]

\* C9: every resolution submitted is the one the conflict alone determines
\* (local id and content when remote is null, the local record for the
\* sentinel, else the remote id with remote content, banner and local
\* content), whatever the published list; the same conflict resolved a second
\* time, after the first pass has changed the published list, is given the
\* same resolution.
C9_ResolutionDetermined ==
  tx.op = "resolve" =>
    /\ \A i \in DOMAIN tx.once.resolutions :
         tx.once.resolutions[i] = ExpectedResolution(tx.conflict)
    /\ \A i \in DOMAIN tx.twice.resolutions :
         tx.twice.resolutions[i] = ExpectedResolution(tx.conflict)
    /\ ~tx.once.threw => /\ Len(tx.once.resolutions) = 1
                         /\ ~tx.twice.threw
                         /\ Len(tx.twice.resolutions) = 2

\* Witness of C9: a default merge against a published list that the round
\* also rewrites is resolved twice.
C9_Witness ==
  /\ tx.op = "resolve"
  /\ Has(tx.conflict, "remote")
  /\ tx.conflict.remote.id = "abc"
  /\ tx.published # <<>>
  /\ Len(tx.twice.resolutions) = 2
  /\ tx.twice.resolutions[2].content = <<"r", "<p>mergeWarning</p>", "x">>

\* C10: for a record that carries ciphertext, decode fails with
\* ServerKeyOlder when the record's kid strictly precedes the key's kid,
\* with ServerKeyNewer when it strictly follows it, calls the cipher only
\* when the two are equal, and has no other outcome.
C10_KeyMismatchOrdering ==
  (tx.op = "decode" /\ Has(tx.record, "content")) =>
    /\ (Has(tx.record, "kid") /\ LexBefore(tx.record.kid, tx.key.kid))
         => tx.out.tag = "ServerKeyOlder"
    /\ (Has(tx.record, "kid") /\ LexBefore(tx.key.kid, tx.record.kid))
         => tx.out.tag = "ServerKeyNewer"
    /\ tx.out.cipher > 0 => (Has(tx.record, "kid") /\ tx.record.kid = tx.key.kid)
    /\ tx.out.tag \in {"ServerKeyOlder", "ServerKeyNewer"} <=> tx.out.cipher = 0
    /\ tx.out.cipher = 1 <=> tx.out.tag \in {"ok", "DecryptFailed"}

\* Witness of C10: a record whose kid is a proper prefix of the key's kid is
\* refused as older.
C10_Witness ==
  /\ tx.op = "decode"
  /\ Has(tx.record, "content")
  /\ Has(tx.record, "kid")
  /\ Len(tx.record.kid) < Len(tx.key.kid)
  /\ LexBefore(tx.record.kid, tx.key.kid)
  /\ tx.out.tag = "ServerKeyOlder"

-----------------------------------------------------------------------------
(* Claims on saveToKinto, loadFromKinto and syncKinto *)

Saves == {c \in Calls : task[c].kind = "save"}
Loads == {c \in Calls : task[c].kind = "load"}

\* The calls of a burst, and those of them whose timeout has expired.
Members(b) == {c \in Saves : task[c].burst = b}
Fired(b) == {c \in Members(b) : task[c].pc # "timer"}

\* A syncKinto cycle of call c has started and has not settled.
InFlight(c) ==
  task[c].pc \in {"get", "renew", "set", "sync", "resolve", "delete",
                  "resetOlder", "resetFlushed"}

\* C1 as stated: a burst of saveToKinto calls, each made before the timeout
\* of the one before has expired, has started exactly one upsert, of the note
\* of the last call, and exactly one syncKinto cycle by the time it is done.
C1_Original ==
  \A c \in Saves :
    task[c].pc = "done" =>
      /\ task[c].upserted = task[c].note
      /\ task[c].cycles = 1
      /\ \A d \in Members(task[c].burst) \ {c} :
           task[d].upserted = <<>> /\ task[d].cycles = 0

\* C1, amended: in a burst only the last call's timeout expires; that call
\* starts exactly one upsert, of its own note, and at most one syncKinto
\* cycle: one when the upsert fulfils, none when it rejects.  The earlier
\* calls of the burst start neither.
C1_Coalescing ==
  \A b \in Calls :
    /\ Cardinality(Fired(b)) <= 1
    /\ \A c \in Members(b) \ Fired(b) :
         task[c].upserted = <<>> /\ task[c].cycles = 0
    /\ \A c \in Fired(b) :
         /\ \A d \in Members(b) : d <= c
         /\ task[c].upserted = task[c].note
         /\ task[c].cycles <= 1
         /\ task[c].pc # "upsert" => (task[c].cycles = 1 <=> task[c].saved = 1)
         /\ task[c].pc = "upsert" => task[c].cycles = 0

\* Witness of C1: a burst of two calls is done, the second call having
\* upserted and run its cycle, the first neither.
C1_Witness ==
  \E c \in Saves :
    /\ task[c].burst # c
    /\ task[c].pc = "done"
    /\ task[c].cycles = 1
    /\ task[task[c].burst].upserted = <<>>
    /\ store["n"] = task[c].note[1].content

\* C2: at most one syncKinto cycle is in flight at a time.
C2_SingleFlight == Cardinality({c \in Calls : InFlight(c)}) <= 1

C5_Unauthorized ==
  /\ [](\A c \in Calls :
          task[c].unauthorized =>
            task[c].pc \in {"list", "done"} /\ task[c].outcome = "resolved")
  /\ [][\A c \in Calls :
          /\ (~task[c].unauthorized /\ task'[c].unauthorized) =>
               /\ credStore' = <<>>
               /\ reconnects' = reconnects + 1
          /\ task[c].unauthorized =>
               /\ task'[c].syncCalls = task[c].syncCalls
               /\ task'[c].restarts = task[c].restarts]_vars

\* Witness of C5: a cycle that had restarted met a 401 and is done.
C5_Witness ==
  \E c \in Calls :
    /\ task[c].unauthorized
    /\ task[c].restarts > 0
    /\ task[c].pc = "done"

OlderRecovered == <<"failed", "deleted", "reset", "restarted">>

\* C6 as stated: a cycle that failed with ServerKeyOlder has deleted the
\* remote collection, reset the local bookkeeping and restarted once by the
\* time it settles.
C6_Original ==
  \A c \in Calls :
    (task[c].pc \in {"list", "done"} /\ task[c].older # <<>>)
      => task[c].older = OlderRecovered

\* C6, amended: on ServerKeyOlder the catch handler calls deleteCollection
\* first; only when that has fulfilled does it reset the local bookkeeping,
\* and only when that has fulfilled does it restart the cycle, once; when the
\* deletion or the reset rejects there is no restart.  None of these steps
\* clears the credential or sends 'reconnect'.
C6_OlderRecovery ==
  /\ [](\A c \in Calls :
          /\ task[c].older \in {<<>>, <<"failed">>, <<"failed", "deleted">>,
                                OlderRecovered, <<"failed", "deleteFailed">>,
                                <<"failed", "deleted", "resetFailed">>}
          /\ task[c].older = <<"failed">> <=> task[c].pc = "delete"
          /\ task[c].older = <<"failed", "deleted">> <=> task[c].pc = "resetOlder")
  /\ [][\A c \in Calls :
          task'[c].older # task[c].older =>
            /\ task'[c].older \in {<<"failed">>, <<"failed", "deleted">>, OlderRecovered}
                 => (credStore' = credStore /\ reconnects' = reconnects)
            /\ task'[c].older = OlderRecovered
                 => /\ task'[c].restarts = task[c].restarts + 1
                    /\ task'[c].pc = "get"
            /\ task'[c].older # OlderRecovered
                 => task'[c].restarts = task[c].restarts]_vars

\* Witness of C6: a cycle has recovered from ServerKeyOlder and restarted
\* with the credential still stored.
C6_Witness ==
  \E c \in Calls :
    /\ task[c].older = OlderRecovered
    /\ task[c].pc = "get"
    /\ credStore # <<>>
    /\ reconnects = 0

\* C7: the conflict field of a save cycle's 'text-synced' is true exactly
\* when a round of that cycle took the merge-banner path; stated for the
\* cycles whose upsert fulfilled.
C7_ConflictFlag ==
  \A c \in Saves :
    (task[c].synced = 1 /\ task[c].saved = 1) =>
      (task[c].conflict = "true" <=> task[c].merged)

-----------------------------------------------------------------------------
(* Claims on encode and on decode of a record without ciphertext *)

TxDeleted(note) == Has(note, "_status") /\ note._status = "deleted"

\* C11: the _status of the envelope encode produces is never 'deleted': it
\* is 'updated' for a note whose status is 'deleted' and the note's own
\* status (undefined when the note has none) otherwise; the envelope has no
\* deleted property, and the status 'deleted' is kept in the sealed payload.
C11_DeletionOpacity ==
  tx.op = "encode" =>
    /\ tx.out._status # "deleted"
    /\ TxDeleted(tx.note) => tx.out._status = "updated"
    /\ (Has(tx.note, "_status") /\ ~TxDeleted(tx.note))
         => tx.out._status = tx.note._status
    /\ ~Has(tx.note, "_status") => tx.out._status = "undefined"
    /\ ~Has(tx.out, "deleted")
    /\ TxDeleted(tx.note) =>
         /\ Has(tx.out.content.payload, "_status")
         /\ tx.out.content.payload._status = "deleted"

\* Witness of C11: a deleted note was encoded as 'updated'.
C11_Witness ==
  /\ tx.op = "encode"
  /\ TxDeleted(tx.note)
  /\ tx.out._status = "updated"
  /\ tx.out.content.payload._status = "deleted"

\* C12: decode of a record without ciphertext does not call the cipher and
\* has the same outcome under every key, whatever the record's kid: the record
\* itself, flagged deleted, when it carries the deletion marker, and the
\* NoCiphertext failure when it does not.
C12_NoCiphertext ==
  (tx.op = "decode" /\ ~Has(tx.record, "content")) =>
    /\ tx.out.cipher = 0
    /\ (Has(tx.record, "deleted") /\ tx.record.deleted)
         => /\ tx.out.tag = "ok"
            /\ tx.out.note = tx.record
            /\ tx.out.note.deleted
    /\ ~(Has(tx.record, "deleted") /\ tx.record.deleted)
         => tx.out.tag = "NoCiphertext"
    /\ tx.out.tag \notin {"ServerKeyNewer", "ServerKeyOlder", "DecryptFailed"}

\* Witness of C12: a tombstone whose kid is not the key's was returned as a
\* deleted note.
C12_Witness ==
  /\ tx.op = "decode"
  /\ ~Has(tx.record, "content")
  /\ Has(tx.record, "kid")
  /\ tx.record.kid # tx.key.kid
  /\ tx.out.tag = "ok"
  /\ tx.out.note.deleted

\* C13: for a note whose status is not 'deleted', decode of its encoding
\* under the same key succeeds with the note's id and content, with the
\* note's last_modified when it has one and none when it has none, and
\* without the deleted flag.
C13_RoundTrip ==
  (tx.op = "encode" /\ ~TxDeleted(tx.note)) =>
    /\ tx.back.tag = "ok"
    /\ tx.back.note.id = tx.note.id
    /\ tx.back.note.content = tx.note.content
    /\ Has(tx.note, "last_modified") =>
         /\ Has(tx.back.note, "last_modified")
         /\ tx.back.note.last_modified = tx.note.last_modified
    /\ ~Has(tx.note, "last_modified") => ~Has(tx.back.note, "last_modified")
    /\ ~Has(tx.back.note, "deleted")

\* Witness of C13: a note with a status and a last_modified came back.
C13_Witness ==
  /\ tx.op = "encode"
  /\ Has(tx.note, "_status")
  /\ tx.note._status = "updated"
  /\ Has(tx.note, "last_modified")
  /\ tx.back.tag = "ok"
  /\ tx.back.note.last_modified = 7
  /\ tx.back.note.content = <<"x">>

-----------------------------------------------------------------------------
(* Claims on the messages of a save *)

\* C14: 'text-editing' has been sent by the time the timeout of a
\* saveToKinto call is armed; 'text-saved' is sent by the step in which the
\* upsert fulfils and the note is written, with the cycle's credentials.get
\* not yet settled and collection.sync not yet called; 'text-synced' is sent
\* by the step in which retrieveNote settles, when no syncKinto cycle of the
\* call is in flight any more.
C14_MessageOrdering ==
  /\ [](\A c \in Saves :
          /\ task[c].editing = 1
          /\ task[c].pc \in {"timer", "upsert"} => (task[c].saved = 0 /\ task[c].synced = 0)
          /\ InFlight(c) => (task[c].saved = 1 /\ task[c].synced = 0)
          /\ task[c].synced = 1 => task[c].pc = "done")
  /\ [][\A c \in Calls :
          /\ task'[c].editing # task[c].editing =>
               (task[c].kind = "none" /\ c \in timers' /\ task'[c].pc = "timer")
          /\ task'[c].saved # task[c].saved =>
               /\ task[c].pc = "upsert"
               /\ task'[c].pc = "get"
               /\ task'[c].syncCalls = 0
               /\ task'[c].credential = <<>>
               /\ store'["n"] = task[c].note[1].content
          /\ task'[c].synced # task[c].synced =>
               /\ task[c].pc = "list"
               /\ task[c].kind = "save"
               /\ ~InFlight(c)]_vars

\* Witness of C14: a save has sent its three messages around a cycle that
\* called collection.sync.
C14_Witness ==
  \E c \in Saves :
    /\ task[c].editing = 1
    /\ task[c].saved = 1
    /\ task[c].synced = 1
    /\ task[c].syncCalls > 0
    /\ task[c].pc = "done"

-----------------------------------------------------------------------------
(* Claims on the resolutions of a round *)

\* The resolution of the 'singleNote' conflict of call c is submitted and has
\* not completed.
SentinelSubmitted(c) ==
  /\ task[c].pc = "resolve"
  /\ \E i \in DOMAIN task[c].pending : task[c].pending[i].id = "singleNote"

\* C15: while the resolution of a 'singleNote' conflict is submitted, the
\* upsert of the merged 'wasSingleNote' record has been written: no upsert of
\* the migration is still to be written.
C15_UpsertBeforeResolve ==
  \A c \in Calls :
    SentinelSubmitted(c) => ~(\E w \in pendingUpserts : w.wasSingleNote)

\* C16: a round that lists k conflicts has submitted k resolutions, and no
\* cycle has settled resolved while a resolution it submitted is still to
\* be written.
C16_ResolutionPerConflict ==
  /\ \A c \in Calls : task[c].submitted = task[c].conflicts
  /\ (\E c \in Calls : task[c].pc \in {"list", "done"} /\ task[c].outcome = "resolved"
                         /\ task[c].conflicts > 0)
       => abandoned = {}

-----------------------------------------------------------------------------
(* Claims on the classification of failures *)

\* The row of the recovery table for a failure.
C17_Row(e) ==
  CASE e \in {E401, ENewer, ERenew} -> "clear"
    [] e = EOlder -> "flush"
    [] e = EFlushed -> "reset"
    [] e = ENoResult -> "success"
    [] e = ENoMessage -> "raise"
    [] OTHER -> "other"

LastError(t) == t.errors[Len(t.errors)]

\* 'reconnect' is sent exactly by the steps that clear the credential.
ReconnectIffCleared ==
  /\ [][reconnects' # reconnects => credStore' = <<>>]_vars
  /\ [][(credStore # <<>> /\ credStore' = <<>>) => reconnects' > reconnects]_vars

-----------------------------------------------------------------------------
(* Claims on the termination of a cycle *)

Settled(c) == task[c].pc \in {"list", "done"}

\* C18: a cycle that has called collection.sync settles, resolved or
\* rejected, whatever the server answers on each restart.
C18_CycleSettles ==
  \A c \in Calls : (task[c].pc = "sync") ~> Settled(c)

-----------------------------------------------------------------------------
(* Claims on the stored credential and on the promise of a save *)

\* C19: once a cycle has cleared the credential and sent 'reconnect', no
\* renewal write of another cycle stores a credential again (no provider
\* supplies one here).
C19_SingleWriter == reconnects > 0 => credStore = <<>>

\* A save call whose timeout was cleared by a later call.
Superseded(c) == task[c].kind = "save" /\ task[c].pc = "timer" /\ c \notin timers

\* C20: the promise of a saveToKinto call is settled only by the step of the
\* call's own chain in which retrieveNote settles; it is then resolved, its
\* 'text-synced' sent, and it never rejects; the promise of a call whose
\* timeout was cleared by a later call stays pending for ever.
C20_SavePromise ==
  /\ [](\A c \in Saves :
          /\ task[c].promise \in {"pending", "resolved"}
          /\ task[c].promise = "resolved" <=> task[c].pc = "done"
          /\ task[c].promise = "resolved" => task[c].synced = 1
          /\ Superseded(c) => task[c].promise = "pending")
  /\ [][\A c \in Calls :
          /\ (task[c].kind = "save" /\ task'[c].promise # task[c].promise) =>
               /\ task[c].pc = "list"
               /\ task'[c].synced = task[c].synced + 1
               /\ \A d \in Calls \ {c} : task'[d] = task[d]
          /\ Superseded(c) => (Superseded(c))']_vars

\* Witness of C20: in a burst of two calls the promise of the second is
\* resolved after its 'text-synced' and the promise of the first is pending.
C20_Witness ==
  \E c \in Saves, d \in Saves :
    /\ Superseded(c)
    /\ task[c].promise = "pending"
    /\ task[d].burst = c
    /\ d # c
    /\ task[d].promise = "resolved"
    /\ task[d].synced = 1

=============================================================================
